---------------------------- MODULE Spec2Model ----------------------------
(***************************************************************************)
(* The release driver (cmd/release/main.go) as a state machine: one run of *)
(* main() from flag parsing to process exit, over a repository whose tags  *)
(* are a map from tag name to commit.  The driver steps are translated     *)
(* from main.go; the operations of the imported "release" package          *)
(* (NewManager, CheckRemote, GetProposedDate, GetProposedSemName,          *)
(* IncrementVersion, FormatRelease, GetBranch, CreateTag, PushTagToRemote) *)
(* are modelled from their documented contracts.                           *)
(***************************************************************************)
EXTENDS Integers, Sequences, FiniteSets, TLC

(* ------------------------------ bounds --------------------------------- *)

\* longest module list (--component values followed by positional args)
MaxModules == 2

\* module names a run may be given
ModuleNames == {"api", "web"}

\* tags the repository may hold when the run starts
TagUniverse ==
  {"2024.01.001", "2024.01.001-api", "2023.12.007", "v1.4.7", "1.4.7-api"}

\* what GetBranch may answer; NoBranch is its error (detached/unknown HEAD)
NoBranch == "<no-branch>"
Branches == {"main", "feature-x"}

\* the injected clock, already rendered by the format "%Y.%m." (main.go:58)
Today == "2024.01."

\* commits: tags that pre-exist point at OldCommit, HEAD is HeadCommit
OldCommit == "c0"
HeadCommit == "c1"

(* ------------------------------ strings -------------------------------- *)

Digits == {"0", "1", "2", "3", "4", "5", "6", "7", "8", "9"}

DigitVal(c) ==
  CASE c = "0" -> 0 [] c = "1" -> 1 [] c = "2" -> 2 [] c = "3" -> 3
    [] c = "4" -> 4 [] c = "5" -> 5 [] c = "6" -> 6 [] c = "7" -> 7
    [] c = "8" -> 8 [] c = "9" -> 9

DigitChar(d) ==
  CASE d = 0 -> "0" [] d = 1 -> "1" [] d = 2 -> "2" [] d = 3 -> "3"
    [] d = 4 -> "4" [] d = 5 -> "5" [] d = 6 -> "6" [] d = 7 -> "7"
    [] d = 8 -> "8" [] d = 9 -> "9"

CharAt(s, i) == SubSeq(s, i, i)

\* strings.HasPrefix
HasPrefix(s, p) == Len(s) >= Len(p) /\ SubSeq(s, 1, Len(p)) = p

\* the part of s after its first Len(p) characters
DropPrefix(s, p) == SubSeq(s, Len(p) + 1, Len(s))

AllDigits(s) == Len(s) > 0 /\ \A i \in 1..Len(s) : CharAt(s, i) \in Digits

\* length of the longest all-digit prefix of s
RECURSIVE DigitRun(_)
DigitRun(s) ==
  IF Len(s) = 0 \/ CharAt(s, 1) \notin Digits THEN 0
  ELSE 1 + DigitRun(SubSeq(s, 2, Len(s)))

\* decimal value of an all-digit string (strconv.Atoi on digits)
RECURSIVE ParseNat(_)
ParseNat(s) ==
  IF Len(s) = 0 THEN 0
  ELSE 10 * ParseNat(SubSeq(s, 1, Len(s) - 1)) + DigitVal(CharAt(s, Len(s)))

\* "%d"
RECURSIVE NatToStr(_)
NatToStr(n) ==
  IF n < 10 THEN DigitChar(n) ELSE NatToStr(n \div 10) \o DigitChar(n % 10)

\* "%03d", the incrementFormat constant
RECURSIVE ZeroPad(_, _)
ZeroPad(s, width) == IF Len(s) >= width THEN s ELSE ZeroPad("0" \o s, width)

\* width of incrementFormat = "%03d"
IncrementWidth == 3

IncrementFormat(n) == ZeroPad(NatToStr(n), IncrementWidth)

\* strings.Join(xs, sep)
RECURSIVE Join(_, _)
Join(xs, sep) ==
  IF Len(xs) = 0 THEN ""
  ELSE IF Len(xs) = 1 THEN xs[1]
  ELSE xs[1] \o sep \o Join(Tail(xs), sep)

SetMax(S) == CHOOSE m \in S : \A x \in S : x <= m


(* -------------------- the release package: pure parts ------------------ *)

\* How GetProposedDate reads the text after the date prefix of a matching
\* tag: "whole" takes it only when all of it is digits ("001-api" is then a
\* malformed suffix and ignored), "leading" takes its leading digits
\* ("001-api" counts as 1).  The contract allows both readings.
SuffixModes == {"whole", "leading"}

\* the running number a tag carries under the date prefix, as a set: empty
\* when the tag does not match or its suffix is malformed
TagNumber(t, mode) ==
  IF ~HasPrefix(t, Today) THEN {}
  ELSE LET rest == DropPrefix(t, Today)
           k == DigitRun(rest)
       IN IF mode = "whole"
          THEN (IF AllDigits(rest) THEN {ParseNat(rest)} ELSE {})
          ELSE (IF k > 0 THEN {ParseNat(SubSeq(rest, 1, k))} ELSE {})

\* rm.GetProposedDate() with AlwaysIncludeNumber = true: max + 1, or 1
GetProposedDate(names, mode) ==
  LET nums == UNION {TagNumber(t, mode) : t \in names}
      n == IF nums = {} THEN 1 ELSE SetMax(nums) + 1
  IN Today \o IncrementFormat(n)

\* a tag of the shape [v]major.minor.patch[-suffix], as a set holding its
\* triple; empty when the tag does not parse
ParseSemVer(t) ==
  LET s0 == IF HasPrefix(t, "v") THEN DropPrefix(t, "v") ELSE t
      a == DigitRun(s0)
      s1 == SubSeq(s0, a + 2, Len(s0))
      b == DigitRun(s1)
      s2 == SubSeq(s1, b + 2, Len(s1))
      c == DigitRun(s2)
      s3 == SubSeq(s2, c + 1, Len(s2))
  IN IF /\ a > 0 /\ Len(s0) > a /\ CharAt(s0, a + 1) = "."
        /\ b > 0 /\ Len(s1) > b /\ CharAt(s1, b + 1) = "."
        /\ c > 0
        /\ (s3 = "" \/ HasPrefix(s3, "-"))
     THEN {<<ParseNat(SubSeq(s0, 1, a)), ParseNat(SubSeq(s1, 1, b)),
             ParseNat(SubSeq(s2, 1, c))>>}
     ELSE {}

\* semver precedence on (major, minor, patch)
VersionLeq(v, w) ==
  \/ v[1] < w[1]
  \/ v[1] = w[1] /\ v[2] < w[2]
  \/ v[1] = w[1] /\ v[2] = w[2] /\ v[3] <= w[3]

\* rm.GetProposedSemName(): the largest parsed version, 0.0.0 when none
GetProposedSemName(names) ==
  LET vs == UNION {ParseSemVer(t) : t \in names}
  IN IF vs = {} THEN <<0, 0, 0>>
     ELSE CHOOSE m \in vs : \A v \in vs : VersionLeq(v, m)

\* proposedSemVer.IncrementVersion(incMajor, incMinor, incPatch)
IncrementVersion(v, major, minor, patch) ==
  IF major THEN <<v[1] + 1, 0, 0>>
  ELSE IF minor THEN <<v[1], v[2] + 1, 0>>
  ELSE IF patch THEN <<v[1], v[2], v[3] + 1>>
  ELSE v

\* the repository's conventional primary branch names
PrimaryBranches == {"main", "master"}

\* proposedSemVer.FormatRelease(module, branch)
FormatRelease(v, module, branch) ==
  NatToStr(v[1]) \o "." \o NatToStr(v[2]) \o "." \o NatToStr(v[3])
    \o (IF module = "" THEN "" ELSE "-" \o module)
    \o (IF branch = "" \/ branch \in PrimaryBranches THEN "" ELSE "-" \o branch)

(* ------------------------------- state --------------------------------- *)

VARIABLES
  pc,            \* where main() is: "parse", "config", "open", "remote",
                 \* "manager", "propose", "report", "create", "push", "exit"
  cFlags,        \* the command line: the --component values,
  posArgs,       \*   the positional arguments,
  userFlag,      \*   --user,
  emailFlag,     \*   --email,
  message,       \*   --msg
  gitconfig,     \* the global git configuration: loaded or not, user.name,
                 \* user.email
  user, email,   \* the identity main() holds (main.go:57, 101-108)
  modules,       \* the module list (main.go:54, 84-90)
  doPush, dryRun, semVer, incMajor, incMinor, incPatch, showVersion,
  suffixMode,    \* how the release package read a date tag's suffix when
                 \* GetProposedDate was called ("unread" before)
  tags,          \* the repository's tags: tag name -> commit
  tags0,         \* the tags when the run started
  remoteTags,    \* names of the tags this run pushed to the remote
  mgrOk,         \* NewManager returned no error
  proposedSemVer, \* the semver proposal after IncrementVersion (135-136)
  newReleases,   \* the computed identifiers (main.go:133)
  idx,           \* position of the create/push loop in newReleases
  failedCreate,  \* main.go:164
  calls,         \* the calls made on the release package, in order
  stdout,        \* lines printed to standard output
  fatal,         \* message of the fatal error that ended the run, or ""
  exitCode       \* -1 while the process runs, then its exit code

argvVars == <<cFlags, posArgs, userFlag, emailFlag, message, gitconfig>>

vars ==
  <<pc, argvVars, user, email, modules, doPush, dryRun, semVer, incMajor, incMinor, incPatch,
    showVersion, suffixMode, tags, tags0, remoteTags, mgrOk, proposedSemVer,
    newReleases, idx, failedCreate, calls, stdout, fatal, exitCode>>

switchVars ==
  <<modules, doPush, dryRun, semVer, incMajor, incMinor, incPatch,
    showVersion>>

\* what flag parsing and configuration loading set and nothing later changes
flagVars == <<argvVars, switchVars, user, email>>

\* one call on the release package (or of loadKeys): the operation, its
\* (tag or remote) argument, whether it returned no error (for loadKeys:
\* whether the key was read and parsed; it returns no error either way),
\* and the position of the create/push loop it was made at (0 outside)
Call(op, arg, ok) ==
  [op |-> op, arg |-> arg, ok |-> ok,
   at |-> IF pc \in {"create", "push"} THEN idx ELSE 0]

\* the module lists a command line can give: --component values followed by
\* the positional arguments
ModuleLists ==
  UNION {[1..n -> ModuleNames] : n \in 0..MaxModules}

\* variant of Modules: the positional arguments come first
Modules_ArgsFirst(components, args) ==
  LET all == args \o components
  IN IF Len(all) = 0 THEN <<"">> ELSE all

\* main.go:84-90: components, then positional arguments; an empty list
\* becomes one unnamed module
Modules(components, args) ==
  LET all == components \o args
  IN IF Len(all) = 0 THEN <<"">> ELSE all

\* os.Exit / log.Fatal / CheckIfError: the run is over
Exit(code, msg) ==
  /\ pc' = "exit"
  /\ exitCode' = code
  /\ fatal' = msg

\* the command lines: --component values and positional arguments of at
\* most MaxModules names together, --user, --email, --msg given or not
CommandLines ==
  {a \in [components : ModuleLists, args : ModuleLists,
          user : {"", "flag-user"}, email : {"", "flag@mail"},
          msg : {"", "notes"}] :
     Len(a.components) + Len(a.args) <= MaxModules}

\* module names given as positional arguments only, no identity, no message
PlainCommandLines ==
  {a \in CommandLines :
     a.components = <<>> /\ a.user = "" /\ a.email = "" /\ a.msg = ""}

\* what config.LoadConfig(config.GlobalScope) can give: an error, or the
\* configuration with user.name and user.email, each possibly unset
NoConfig == [loaded |-> FALSE, name |-> "", email |-> ""]

Configs ==
  {NoConfig} \cup [loaded : {TRUE}, name : {"", "cfg-user"},
                   email : {"", "cfg@mail"}]

FullConfig == [loaded |-> TRUE, name |-> "cfg-user", email |-> "cfg@mail"]

\* the state main() starts in, for a repository, a command line and a
\* configuration out of the given sets
Start(tagSets, commandLines, configs) ==
  /\ pc = "parse"
  /\ \E a \in commandLines :
       /\ cFlags = a.components /\ posArgs = a.args
       /\ userFlag = a.user /\ emailFlag = a.email /\ message = a.msg
  /\ gitconfig \in configs
  /\ user = "" /\ email = ""
  /\ modules = <<>>
  /\ doPush = FALSE /\ dryRun = FALSE /\ semVer = FALSE
  /\ incMajor = FALSE /\ incMinor = FALSE /\ incPatch = FALSE
  /\ showVersion = FALSE
  /\ suffixMode = "unread"
  /\ \E present \in tagSets :
       tags = [t \in present |-> OldCommit]
  /\ tags0 = tags
  /\ remoteTags = {}
  /\ mgrOk = FALSE
  /\ proposedSemVer = <<0, 0, 0>>
  /\ newReleases = <<>>
  /\ idx = 1
  /\ failedCreate = FALSE
  /\ calls = <<>>
  /\ stdout = <<>>
  /\ fatal = ""
  /\ exitCode = -1

\* every repository, for plain command lines
Init == Start(SUBSET TagUniverse, PlainCommandLines, {FullConfig})

\* the repository the command-line and identity runs start from
SomeTags == {"v1.4.7", "2024.01.001-api"}

\* every split of the module names between --component and positional
\* arguments, for one repository
InitArgs ==
  Start({SomeTags},
        {a \in CommandLines : a.user = "" /\ a.email = "" /\ a.msg = ""},
        {FullConfig})

\* every identity on the command line and in the configuration, for one
\* repository
InitIdentity ==
  Start({SomeTags},
        {a \in CommandLines : a.components = <<>>}, Configs)

(* ------------------------------ main() --------------------------------- *)

\* main.go:52-90: flag.Parse, --version, the module list.  The switches are
\* drawn here; the increment flags are read only by the semver path, so they
\* are drawn only with --semver.
ParseFlags ==
  /\ pc = "parse"
  /\ \E push, dry, sem, ver \in BOOLEAN :
       /\ doPush' = push /\ dryRun' = dry /\ semVer' = sem
       /\ showVersion' = ver
       /\ \E ma, mi, pa \in (IF sem THEN BOOLEAN ELSE {FALSE}) :
            incMajor' = ma /\ incMinor' = mi /\ incPatch' = pa
       /\ IF ver
          THEN /\ modules' = cFlags
               /\ Exit(0, "")
          ELSE /\ modules' = Modules(cFlags, posArgs)
               /\ pc' = "config"
               /\ UNCHANGED <<exitCode, fatal>>
  /\ user' = userFlag
  /\ email' = emailFlag
  /\ UNCHANGED <<argvVars, suffixMode, tags, tags0, remoteTags, mgrOk,
                 proposedSemVer, newReleases, idx, failedCreate, calls,
                 stdout>>

\* variant of LoadConfig: the configuration replaces the flag values
LoadConfig_ConfigWins ==
  /\ pc = "config"
  /\ IF gitconfig.loaded
     THEN /\ user' = gitconfig.name
          /\ email' = gitconfig.email
     ELSE UNCHANGED <<user, email>>
  /\ pc' = "open"
  /\ UNCHANGED <<argvVars, switchVars, proposedSemVer, suffixMode, tags,
                 tags0, remoteTags, mgrOk, newReleases, idx, failedCreate,
                 calls, stdout, fatal, exitCode>>

\* main.go:101-115: config.LoadConfig(config.GlobalScope); a loaded
\* configuration fills the user and the email that no flag gave, an error
\* is only logged at debug level
LoadConfig ==
  /\ pc = "config"
  /\ IF gitconfig.loaded
     THEN /\ user' = IF user = "" THEN gitconfig.name ELSE user
          /\ email' = IF email = "" THEN gitconfig.email ELSE email
     ELSE UNCHANGED <<user, email>>
  /\ pc' = "open"
  /\ UNCHANGED <<argvVars, switchVars, proposedSemVer, suffixMode, tags,
                 tags0, remoteTags, mgrOk, newReleases, idx, failedCreate,
                 calls, stdout, fatal, exitCode>>

\* main.go:117-121: release.NewManager(cwd, format, incrementFormat); its
\* error is looked at only at line 131
NewManager ==
  /\ pc = "open"
  /\ \E ok \in BOOLEAN :
       /\ mgrOk' = ok
       /\ calls' = Append(calls, Call("NewManager", "", ok))
  /\ pc' = "remote"
  /\ UNCHANGED <<flagVars, proposedSemVer, suffixMode, tags, tags0, remoteTags, newReleases,
                 idx, failedCreate, stdout, fatal, exitCode>>

\* variant of CheckRemote: the error of rm.CheckRemote is dropped
CheckRemote_IgnoresError ==
  /\ pc = "remote"
  /\ IF doPush
     THEN \E r \in (IF mgrOk THEN {"ok", "err"} ELSE {"ok", "err", "panic"}) :
            /\ calls' = Append(calls, Call("CheckRemote", "origin", r = "ok"))
            /\ CASE r = "ok" -> /\ pc' = "manager"
                                /\ UNCHANGED <<exitCode, fatal>>
                 [] r = "err" -> /\ pc' = "manager"
                                 /\ UNCHANGED <<exitCode, fatal>>
                 [] r = "panic" -> Exit(2, "panic")
     ELSE /\ pc' = "manager"
          /\ UNCHANGED <<calls, exitCode, fatal>>
  /\ UNCHANGED <<flagVars, proposedSemVer, suffixMode, tags, tags0, remoteTags, mgrOk,
                 newReleases, idx, failedCreate, stdout>>

\* main.go:123-126: with --push, rm.CheckRemote(remote); a failure is fatal.
\* On a manager that failed to open the call may also panic.
CheckRemote ==
  /\ pc = "remote"
  /\ IF doPush
     THEN \E r \in (IF mgrOk THEN {"ok", "err"} ELSE {"ok", "err", "panic"}) :
            /\ calls' = Append(calls, Call("CheckRemote", "origin", r = "ok"))
            /\ CASE r = "ok" -> /\ pc' = "manager"
                                /\ UNCHANGED <<exitCode, fatal>>
                 [] r = "err" -> Exit(1, "problem with remote, cannot push")
                 [] r = "panic" -> Exit(2, "panic")
     ELSE /\ pc' = "manager"
          /\ UNCHANGED <<calls, exitCode, fatal>>
  /\ UNCHANGED <<flagVars, proposedSemVer, suffixMode, tags, tags0, remoteTags, mgrOk,
                 newReleases, idx, failedCreate, stdout>>

\* main.go:128-131: rm.AlwaysIncludeNumber = true, then the NewManager error
\* is checked: fatal (or a panic on the nil manager)
CheckManager ==
  /\ pc = "manager"
  /\ IF mgrOk
     THEN /\ pc' = "propose"
          /\ UNCHANGED <<exitCode, fatal>>
     ELSE \/ Exit(1, "failed to load release manager")
          \/ Exit(2, "panic")
  /\ UNCHANGED <<flagVars, proposedSemVer, suffixMode, tags, tags0, remoteTags, mgrOk,
                 newReleases, idx, failedCreate, calls, stdout>>

\* the calls of main.go:135-136
SemVerCalls ==
  <<Call("GetProposedSemName", "", TRUE), Call("IncrementVersion", "", TRUE)>>

\* variant of ProposeSemVer: the error of rm.GetBranch is dropped and the
\* identifiers are formatted without a branch
ProposeSemVer_IgnoresBranchError ==
  /\ pc = "propose"
  /\ semVer
  /\ LET base == GetProposedSemName(DOMAIN tags)
         proposed == IncrementVersion(base, incMajor, incMinor, incPatch)
     IN /\ proposedSemVer' = proposed
        /\ \E branch \in Branches \cup {NoBranch} :
             /\ calls' = calls \o SemVerCalls
                      \o [i \in 1..Len(modules) |->
                            Call("GetBranch", "", branch # NoBranch)]
             /\ newReleases' =
                  [i \in 1..Len(modules) |->
                     FormatRelease(proposed, modules[i],
                                   IF branch = NoBranch THEN "" ELSE branch)]
             /\ pc' = "report"
             /\ UNCHANGED <<exitCode, fatal>>
  /\ UNCHANGED <<flagVars, suffixMode, tags, tags0, remoteTags, mgrOk, idx,
                 failedCreate, stdout>>

\* variant of ProposeSemVer: the increment flags are passed in the wrong
\* order
ProposeSemVer_SwapsFlags ==
  /\ pc = "propose"
  /\ semVer
  /\ LET base == GetProposedSemName(DOMAIN tags)
         proposed == IncrementVersion(base, incMinor, incMajor, incPatch)
     IN /\ proposedSemVer' = proposed
        /\ \E branch \in Branches \cup {NoBranch} :
             IF branch = NoBranch
             THEN /\ calls' = calls \o SemVerCalls
                                \o <<Call("GetBranch", "", FALSE)>>
                  /\ Exit(1, "Unable to get current branch")
                  /\ UNCHANGED newReleases
             ELSE /\ calls' = calls \o SemVerCalls
                           \o [i \in 1..Len(modules) |->
                                 Call("GetBranch", "", TRUE)]
                  /\ newReleases' =
                       [i \in 1..Len(modules) |->
                          FormatRelease(proposed, modules[i], branch)]
                  /\ pc' = "report"
                  /\ UNCHANGED <<exitCode, fatal>>
  /\ UNCHANGED <<flagVars, suffixMode, tags, tags0, remoteTags, mgrOk, idx,
                 failedCreate, stdout>>

\* the version after n applications of IncrementVersion
RECURSIVE IncrementTimes(_, _, _, _, _)
IncrementTimes(v, major, minor, patch, n) ==
  IF n = 0 THEN v
  ELSE IncrementVersion(IncrementTimes(v, major, minor, patch, n - 1),
                        major, minor, patch)

\* variant of ProposeSemVer: IncrementVersion is called inside the module
\* loop, once per module
ProposeSemVer_IncrementsPerModule ==
  /\ pc = "propose"
  /\ semVer
  /\ LET base == GetProposedSemName(DOMAIN tags)
         proposed(n) == IncrementTimes(base, incMajor, incMinor, incPatch, n)
     IN /\ proposedSemVer' = proposed(1)
        /\ \E branch \in Branches \cup {NoBranch} :
             IF branch = NoBranch
             THEN /\ calls' = calls \o SemVerCalls
                                \o <<Call("GetBranch", "", FALSE)>>
                  /\ Exit(1, "Unable to get current branch")
                  /\ UNCHANGED newReleases
             ELSE /\ calls' = calls \o SemVerCalls
                           \o [i \in 1..Len(modules) |->
                                 Call("GetBranch", "", TRUE)]
                  /\ newReleases' =
                       [i \in 1..Len(modules) |->
                          FormatRelease(proposed(i), modules[i], branch)]
                  /\ pc' = "report"
                  /\ UNCHANGED <<exitCode, fatal>>
  /\ UNCHANGED <<flagVars, suffixMode, tags, tags0, remoteTags, mgrOk, idx,
                 failedCreate, stdout>>

\* main.go:134-143: the semver proposal, computed and incremented once, then
\* formatted per module with the current branch; no branch is fatal
ProposeSemVer ==
  /\ pc = "propose"
  /\ semVer
  /\ LET base == GetProposedSemName(DOMAIN tags)
         proposed == IncrementVersion(base, incMajor, incMinor, incPatch)
     IN /\ proposedSemVer' = proposed
        /\ \E branch \in Branches \cup {NoBranch} :
             IF branch = NoBranch
             THEN /\ calls' = calls \o SemVerCalls
                                \o <<Call("GetBranch", "", FALSE)>>
                  /\ Exit(1, "Unable to get current branch")
                  /\ UNCHANGED newReleases
             ELSE /\ calls' = calls \o SemVerCalls
                           \o [i \in 1..Len(modules) |->
                                 Call("GetBranch", "", TRUE)]
                  /\ newReleases' =
                       [i \in 1..Len(modules) |->
                          FormatRelease(proposed, modules[i], branch)]
                  /\ pc' = "report"
                  /\ UNCHANGED <<exitCode, fatal>>
  /\ UNCHANGED <<flagVars, suffixMode, tags, tags0, remoteTags, mgrOk, idx,
                 failedCreate, stdout>>

\* main.go:144-153: the date proposal, computed once, then suffixed with
\* "-<module>" for every named module
ProposeDate ==
  /\ pc = "propose"
  /\ ~semVer
  /\ \E mode \in SuffixModes :
       /\ suffixMode' = mode
       /\ LET proposedDate == GetProposedDate(DOMAIN tags, mode)
          IN newReleases' =
               [i \in 1..Len(modules) |->
                  IF modules[i] = "" THEN proposedDate
                  ELSE proposedDate \o "-" \o modules[i]]
  /\ calls' = Append(calls, Call("GetProposedDate", "", TRUE))
  /\ pc' = "report"
  /\ UNCHANGED <<flagVars, proposedSemVer, tags, tags0, remoteTags, mgrOk,
                 idx, failedCreate, stdout, fatal, exitCode>>

\* main.go:155-158
Plural == IF Len(newReleases) > 1 THEN "s" ELSE ""

\* variant of DryRun: the summary is printed but the run goes on
DryRun_FallsThrough ==
  /\ pc = "report"
  /\ stdout' = IF dryRun
               THEN Append(stdout, "would create release" \o Plural
                             \o ":\n" \o Join(newReleases, ", "))
               ELSE stdout
  /\ pc' = "create"
  /\ UNCHANGED <<flagVars, proposedSemVer, suffixMode, tags, tags0, remoteTags, mgrOk,
                 newReleases, idx, failedCreate, calls, exitCode, fatal>>

\* main.go:159-164: a dry run prints the summary and exits 0
DryRun ==
  /\ pc = "report"
  /\ IF dryRun
     THEN /\ stdout' = Append(stdout, "would create release" \o Plural
                                \o ":\n" \o Join(newReleases, ", "))
          /\ Exit(0, "")
     ELSE /\ pc' = "create"
          /\ UNCHANGED <<stdout, exitCode, fatal>>
  /\ UNCHANGED <<flagVars, proposedSemVer, suffixMode, tags, tags0, remoteTags, mgrOk,
                 newReleases, idx, failedCreate, calls>>

\* rm.CreateTag(name, message, user, email): fails when the name is taken
\* (TagAlreadyExists), when a message is given without a user or an email
\* (MissingIdentity), may fail for another reason (storage), else records
\* the tag at HEAD; a failure leaves the tags as they were
CreateTagOutcomes(name) ==
  IF name \in DOMAIN tags THEN {FALSE}
  ELSE IF message # "" /\ (user = "" \/ email = "") THEN {FALSE}
  ELSE BOOLEAN

TagsAfterCreate(name, ok) ==
  IF ok
  THEN [t \in DOMAIN tags \cup {name} |->
          IF t = name THEN HeadCommit ELSE tags[t]]
  ELSE tags

\* variant of CreateTag: no "continue" after a failed creation
CreateTag_PushesAfterFailure ==
  /\ pc = "create"
  /\ idx <= Len(newReleases)
  /\ LET newRelease == newReleases[idx]
     IN \E ok \in CreateTagOutcomes(newRelease) :
          /\ calls' = Append(calls, Call("CreateTag", newRelease, ok))
          /\ tags' = TagsAfterCreate(newRelease, ok)
          /\ failedCreate' = (failedCreate \/ ~ok)
          /\ stdout' = Append(stdout, "created release: " \o newRelease)
          /\ IF doPush
             THEN pc' = "push" /\ UNCHANGED idx
             ELSE pc' = "create" /\ idx' = idx + 1
  /\ UNCHANGED <<flagVars, proposedSemVer, suffixMode, tags0, remoteTags, mgrOk, newReleases,
                 fatal, exitCode>>

\* variant of CreateTag: "break" instead of "continue" after a failure
CreateTag_AbortsOnFailure ==
  /\ pc = "create"
  /\ idx <= Len(newReleases)
  /\ LET newRelease == newReleases[idx]
     IN \E ok \in CreateTagOutcomes(newRelease) :
          /\ calls' = Append(calls, Call("CreateTag", newRelease, ok))
          /\ tags' = TagsAfterCreate(newRelease, ok)
          /\ IF ~ok
             THEN /\ failedCreate' = TRUE
                  /\ idx' = Len(newReleases) + 1
                  /\ UNCHANGED <<pc, stdout>>
             ELSE /\ stdout' = Append(stdout, "created release: " \o newRelease)
                  /\ UNCHANGED failedCreate
                  /\ IF doPush
                     THEN pc' = "push" /\ UNCHANGED idx
                     ELSE pc' = "create" /\ idx' = idx + 1
  /\ UNCHANGED <<flagVars, proposedSemVer, suffixMode, tags0, remoteTags, mgrOk, newReleases,
                 fatal, exitCode>>

\* variant of CreateTag: the "created release" line is printed before the
\* error is looked at
CreateTag_PrintsOnFailure ==
  /\ pc = "create"
  /\ idx <= Len(newReleases)
  /\ LET newRelease == newReleases[idx]
     IN \E ok \in CreateTagOutcomes(newRelease) :
          /\ calls' = Append(calls, Call("CreateTag", newRelease, ok))
          /\ tags' = TagsAfterCreate(newRelease, ok)
          /\ stdout' = Append(stdout, "created release: " \o newRelease)
          /\ IF ~ok
             THEN /\ failedCreate' = TRUE
                  /\ idx' = idx + 1
                  /\ UNCHANGED pc
             ELSE /\ UNCHANGED failedCreate
                  /\ IF doPush
                     THEN pc' = "push" /\ UNCHANGED idx
                     ELSE pc' = "create" /\ idx' = idx + 1
  /\ UNCHANGED <<flagVars, proposedSemVer, suffixMode, tags0, remoteTags, mgrOk, newReleases,
                 fatal, exitCode>>

\* variant of CreateTag: the "created release" line is printed only when
\* the tag is not going to be pushed
CreateTag_SilentWithPush ==
  /\ pc = "create"
  /\ idx <= Len(newReleases)
  /\ LET newRelease == newReleases[idx]
     IN \E ok \in CreateTagOutcomes(newRelease) :
          /\ calls' = Append(calls, Call("CreateTag", newRelease, ok))
          /\ tags' = TagsAfterCreate(newRelease, ok)
          /\ IF ~ok
             THEN /\ failedCreate' = TRUE
                  /\ idx' = idx + 1
                  /\ UNCHANGED <<pc, stdout>>
             ELSE /\ UNCHANGED failedCreate
                  /\ IF doPush
                     THEN pc' = "push" /\ UNCHANGED <<idx, stdout>>
                     ELSE /\ pc' = "create" /\ idx' = idx + 1
                          /\ stdout' = Append(stdout,
                               "created release: " \o newRelease)
  /\ UNCHANGED <<flagVars, proposedSemVer, suffixMode, tags0, remoteTags, mgrOk, newReleases,
                 fatal, exitCode>>

\* main.go:165-175: one CreateTag attempt; a failure is logged, sets
\* failedCreate and moves on; a success prints the line and, with --push,
\* goes on to push this tag
CreateTag ==
  /\ pc = "create"
  /\ idx <= Len(newReleases)
  /\ LET newRelease == newReleases[idx]
     IN \E ok \in CreateTagOutcomes(newRelease) :
          /\ calls' = Append(calls, Call("CreateTag", newRelease, ok))
          /\ tags' = TagsAfterCreate(newRelease, ok)
          /\ IF ~ok
             THEN /\ failedCreate' = TRUE
                  /\ idx' = idx + 1
                  /\ UNCHANGED <<pc, stdout>>
             ELSE /\ stdout' = Append(stdout, "created release: " \o newRelease)
                  /\ UNCHANGED failedCreate
                  /\ IF doPush
                     THEN pc' = "push" /\ UNCHANGED idx
                     ELSE pc' = "create" /\ idx' = idx + 1
  /\ UNCHANGED <<flagVars, proposedSemVer, suffixMode, tags0, remoteTags, mgrOk, newReleases,
                 fatal, exitCode>>

\* main.go:27-33: loadKeys reads and parses the key file, drops both errors
\* and always returns a credential; keyOk says whether the key was usable
loadKeys(keyOk) == Call("loadKeys", "", keyOk)

\* rm.PushTagToRemote with the credential loadKeys built: a key that could
\* not be read or parsed makes the push fail; otherwise the transport
\* decides
PushOutcomes(keyOk) == IF keyOk THEN BOOLEAN ELSE {FALSE}

\* rm.PushTagToRemote sends the one ref to the remote; whether it succeeds
\* or fails, the local tags stay as they are
TagsAfterPush(name, ok) == tags

\* variant of PushTagToRemote: a failed push does not set failedCreate
PushTagToRemote_ForgetsFailure ==
  /\ pc = "push"
  /\ LET newRelease == newReleases[idx]
     IN \E keyOk \in BOOLEAN, ok \in BOOLEAN :
          /\ ok \in PushOutcomes(keyOk)
          /\ calls' = calls \o <<loadKeys(keyOk),
                                 Call("PushTagToRemote", newRelease, ok)>>
          /\ tags' = TagsAfterPush(newRelease, ok)
          /\ IF ok
             THEN /\ remoteTags' = remoteTags \cup {newRelease}
                  /\ stdout' = Append(stdout, "pushed " \o newRelease)
             ELSE /\ stdout' = Append(stdout,
                      "the tag will still be in the local repo: " \o newRelease)
                  /\ UNCHANGED remoteTags
  /\ UNCHANGED failedCreate
  /\ idx' = idx + 1
  /\ pc' = "create"
  /\ UNCHANGED <<flagVars, proposedSemVer, suffixMode, tags0, mgrOk, newReleases,
                 fatal, exitCode>>

\* variant of PushTagToRemote: a failed push deletes the local tag
PushTagToRemote_RollsBack ==
  /\ pc = "push"
  /\ LET newRelease == newReleases[idx]
     IN \E keyOk \in BOOLEAN, ok \in BOOLEAN :
          /\ ok \in PushOutcomes(keyOk)
          /\ calls' = calls \o <<loadKeys(keyOk),
                                 Call("PushTagToRemote", newRelease, ok)>>
          /\ IF ok
             THEN /\ remoteTags' = remoteTags \cup {newRelease}
                  /\ stdout' = Append(stdout, "pushed " \o newRelease)
                  /\ UNCHANGED <<failedCreate, tags>>
             ELSE /\ stdout' = Append(stdout, "deleted " \o newRelease)
                  /\ failedCreate' = TRUE
                  /\ tags' = [t \in DOMAIN tags \ {newRelease} |-> tags[t]]
                  /\ UNCHANGED remoteTags
  /\ idx' = idx + 1
  /\ pc' = "create"
  /\ UNCHANGED <<flagVars, proposedSemVer, suffixMode, tags0, mgrOk, newReleases,
                 fatal, exitCode>>

\* variant of PushTagToRemote: a failed push is tried once more
PushTagToRemote_Retries ==
  /\ pc = "push"
  /\ LET newRelease == newReleases[idx]
         retried == \E i \in 1..Len(calls) :
                      calls[i] = Call("PushTagToRemote", newRelease, FALSE)
     IN \E keyOk \in BOOLEAN, ok \in BOOLEAN :
          /\ ok \in PushOutcomes(keyOk)
          /\ calls' = calls \o <<loadKeys(keyOk),
                                 Call("PushTagToRemote", newRelease, ok)>>
          /\ tags' = TagsAfterPush(newRelease, ok)
          /\ IF ok
             THEN /\ remoteTags' = remoteTags \cup {newRelease}
                  /\ stdout' = Append(stdout, "pushed " \o newRelease)
                  /\ UNCHANGED failedCreate
             ELSE /\ stdout' = Append(stdout,
                      "the tag will still be in the local repo: " \o newRelease)
                  /\ failedCreate' = TRUE
                  /\ UNCHANGED remoteTags
          /\ IF ok \/ retried
             THEN idx' = idx + 1 /\ pc' = "create"
             ELSE UNCHANGED <<idx, pc>>
  /\ UNCHANGED <<flagVars, proposedSemVer, suffixMode, tags0, mgrOk, newReleases,
                 fatal, exitCode>>

\* variant of PushTagToRemote: loadKeys ends the run when the key cannot be
\* read or parsed
PushTagToRemote_FatalOnBadKey ==
  /\ pc = "push"
  /\ LET newRelease == newReleases[idx]
     IN \E keyOk \in BOOLEAN, ok \in BOOLEAN :
          /\ ok \in PushOutcomes(keyOk)
          /\ tags' = TagsAfterPush(newRelease, ok)
          /\ IF ~keyOk
             THEN /\ calls' = Append(calls, Call("loadKeys", "", FALSE))
                  /\ Exit(1, "unable to load ssh key")
                  /\ UNCHANGED <<remoteTags, stdout, failedCreate, idx>>
             ELSE /\ calls' = calls \o <<loadKeys(keyOk),
                                         Call("PushTagToRemote", newRelease, ok)>>
                  /\ IF ok
                     THEN /\ remoteTags' = remoteTags \cup {newRelease}
                          /\ stdout' = Append(stdout, "pushed " \o newRelease)
                          /\ UNCHANGED failedCreate
                     ELSE /\ stdout' = Append(stdout,
                              "the tag will still be in the local repo: "
                                \o newRelease)
                          /\ failedCreate' = TRUE
                          /\ UNCHANGED remoteTags
                  /\ idx' = idx + 1
                  /\ pc' = "create"
                  /\ UNCHANGED <<fatal, exitCode>>
  /\ UNCHANGED <<flagVars, proposedSemVer, suffixMode, tags0, mgrOk,
                 newReleases>>

\* main.go:175-186: loadKeys, rm.PushTagToRemote; a failure is logged, the
\* user is told the tag is still local, failedCreate is set; the local tags
\* are not touched either way
PushTagToRemote ==
  /\ pc = "push"
  /\ LET newRelease == newReleases[idx]
     IN \E keyOk \in BOOLEAN, ok \in BOOLEAN :
          /\ ok \in PushOutcomes(keyOk)
          /\ calls' = calls \o <<loadKeys(keyOk),
                                 Call("PushTagToRemote", newRelease, ok)>>
          /\ tags' = TagsAfterPush(newRelease, ok)
          /\ IF ok
             THEN /\ remoteTags' = remoteTags \cup {newRelease}
                  /\ stdout' = Append(stdout, "pushed " \o newRelease)
                  /\ UNCHANGED failedCreate
             ELSE /\ stdout' = Append(stdout,
                      "the tag will still be in the local repo: " \o newRelease)
                  /\ failedCreate' = TRUE
                  /\ UNCHANGED remoteTags
  /\ idx' = idx + 1
  /\ pc' = "create"
  /\ UNCHANGED <<flagVars, proposedSemVer, suffixMode, tags0, mgrOk, newReleases,
                 fatal, exitCode>>

\* main.go:187-201: after the loop, one aggregate fatal error when anything
\* failed; else, without --push, the hint how to push
Finish ==
  /\ pc = "create"
  /\ idx > Len(newReleases)
  /\ IF failedCreate
     THEN /\ Exit(1, "at least one tag failed to create"
                       \o (IF doPush THEN "/push" ELSE ""))
          /\ UNCHANGED stdout
     ELSE /\ Exit(0, "")
          /\ stdout' = IF doPush THEN stdout
                       ELSE Append(stdout, "tag" \o Plural \o " ("
                              \o Join(newReleases, ", ") \o ") not pushed")
  /\ UNCHANGED <<flagVars, proposedSemVer, suffixMode, tags, tags0, remoteTags, mgrOk,
                 newReleases, idx, failedCreate, calls>>

Next ==
  \/ ParseFlags
  \/ LoadConfig
  \/ NewManager
  \/ CheckRemote
  \/ CheckManager
  \/ ProposeSemVer
  \/ ProposeDate
  \/ DryRun
  \/ CreateTag
  \/ PushTagToRemote
  \/ Finish

Spec == Init /\ [][Next]_vars

SpecArgs == InitArgs /\ [][Next]_vars

SpecIdentity == InitIdentity /\ [][Next]_vars

(* ------------------------------ properties ----------------------------- *)

CallsOf(op) == SelectSeq(calls, LAMBDA c : c.op = op)

Called(op) == \E i \in 1..Len(calls) : calls[i].op = op

Failed(op) == \E i \in 1..Len(calls) : calls[i].op = op /\ ~calls[i].ok

NoTagWork == ~Called("CreateTag") /\ ~Called("PushTagToRemote")

\* the "created release: <id>" lines of stdout, in order
CreatedLines ==
  SelectSeq(stdout, LAMBDA l : HasPrefix(l, "created release: "))

\* the run got past the dry-run exit into the create/push loop and is over
FinishedTagWork == pc = "exit" /\ ~dryRun /\ newReleases # <<>>

\* C1: when --push is set and CheckRemote fails, the run is over at once
\* with a non-zero exit code, CreateTag and PushTagToRemote were never
\* called, and the tags are those the run started with.
C1_RemoteFailureBeforeTagWork ==
  Failed("CheckRemote") =>
    /\ doPush
    /\ pc = "exit" /\ exitCode # 0 /\ fatal # ""
    /\ NoTagWork
    /\ tags = tags0

C1_Witness ==
  /\ mgrOk /\ doPush /\ Failed("CheckRemote")
  /\ pc = "exit" /\ fatal = "problem with remote, cannot push"
  /\ tags0 # <<>>

\* C2: a run with --dry-run, under either scheme and any module list,
\* never calls CreateTag or PushTagToRemote, and its tags stay those it
\* started with.
C2_DryRunMutatesNothing ==
  dryRun => NoTagWork /\ tags = tags0 /\ remoteTags = {}

C2_Witness ==
  /\ dryRun /\ doPush /\ pc = "exit" /\ exitCode = 0
  /\ Len(newReleases) = 2 /\ Len(stdout) = 1

\* C3: every PushTagToRemote(name) call is made with --push set and follows
\* a CreateTag(name) call of the same run that returned no error, with no
\* other CreateTag call in between: an identifier whose creation failed is
\* never pushed.
C3_PushOnlyAfterCreate ==
  \A i \in 1..Len(calls) :
    calls[i].op = "PushTagToRemote" =>
      /\ doPush
      /\ \E j \in 1..(i - 1) :
           /\ calls[j].op = "CreateTag"
           /\ calls[j].arg = calls[i].arg
           /\ calls[j].ok
           /\ \A k \in (j + 1)..(i - 1) : calls[k].op # "CreateTag"

C3_Witness ==
  /\ pc = "exit"
  /\ Failed("CreateTag")
  /\ Len(CallsOf("PushTagToRemote")) = 1
  /\ Len(CallsOf("CreateTag")) = 2

\* C4: in a run that is not a dry run, every computed identifier gets its
\* CreateTag attempt, in order, whatever failed before it; with --push every
\* created one gets its push attempt; and the aggregate fatal error comes
\* only after the last identifier was processed.
C4_FailuresDoNotAbort ==
  /\ FinishedTagWork =>
       /\ [i \in 1..Len(CallsOf("CreateTag")) |-> CallsOf("CreateTag")[i].arg]
            = newReleases
       /\ doPush =>
            \A i \in 1..Len(calls) :
              (calls[i].op = "CreateTag" /\ calls[i].ok) =>
                \E j \in (i + 1)..Len(calls) :
                  /\ calls[j].op = "PushTagToRemote"
                  /\ calls[j].at = calls[i].at
  /\ HasPrefix(fatal, "at least one tag failed to create") =>
       /\ idx > Len(newReleases)
       /\ Len(CallsOf("CreateTag")) = Len(newReleases)

C4_Witness ==
  /\ FinishedTagWork /\ doPush
  /\ Len(newReleases) = 2
  /\ ~CallsOf("CreateTag")[1].ok
  /\ CallsOf("CreateTag")[2].ok
  /\ exitCode = 1

\* a CreateTag call made when its name was already a tag: the name was
\* there when the run started, or an earlier call of the run created it
OnExistingTag(i) ==
  /\ calls[i].op = "CreateTag"
  /\ \/ calls[i].arg \in DOMAIN tags0
     \/ \E j \in 1..(i - 1) :
          calls[j].op = "CreateTag" /\ calls[j].arg = calls[i].arg /\ calls[j].ok

\* C5: CreateTag on a name that is already a tag fails; the driver records
\* the failure and prints no "created release" line for it (the lines are
\* exactly the successful creations); every tag the run started with is
\* still there, at the same commit.
C5_TagNeverOverwritten ==
  /\ \A t \in DOMAIN tags0 : t \in DOMAIN tags /\ tags[t] = tags0[t]
  /\ \A i \in 1..Len(calls) :
       OnExistingTag(i) => ~calls[i].ok /\ failedCreate
  /\ CreatedLines =
       [i \in 1..Len(SelectSeq(CallsOf("CreateTag"), LAMBDA c : c.ok)) |->
          "created release: "
            \o SelectSeq(CallsOf("CreateTag"), LAMBDA c : c.ok)[i].arg]

C5_Witness ==
  /\ pc = "exit"
  /\ \E i \in 1..Len(calls) : OnExistingTag(i) /\ calls[i].arg \in DOMAIN tags0
  /\ Len(CreatedLines) = 1

\* C6: a dry run exits 0; a run that went into the create/push loop exits
\* non-zero exactly when a CreateTag or PushTagToRemote call returned an
\* error, and 0 otherwise.
C6_ExitCode ==
  /\ (pc = "exit" /\ dryRun /\ newReleases # <<>>) => exitCode = 0
  /\ FinishedTagWork =>
       /\ exitCode \in {0, 1}
       /\ exitCode # 0 <=> (Failed("CreateTag") \/ Failed("PushTagToRemote"))

C6_Witness ==
  /\ FinishedTagWork
  /\ ~Failed("CreateTag") /\ Failed("PushTagToRemote")
  /\ exitCode = 1

\* C7: every identifier whose CreateTag succeeded is a local tag at HEAD
\* from then on, whether its push succeeded or failed.
C7_PushFailureKeepsTag ==
  \A i \in 1..Len(calls) :
    (calls[i].op = "CreateTag" /\ calls[i].ok) =>
      /\ calls[i].arg \in DOMAIN tags
      /\ tags[calls[i].arg] = HeadCommit

C7_Witness ==
  /\ pc = "exit"
  /\ \E i \in 1..Len(calls) :
       /\ calls[i].op = "PushTagToRemote" /\ ~calls[i].ok
       /\ calls[i].arg \in DOMAIN tags
       /\ calls[i].arg \notin remoteTags

HasSuffix(s, x) ==
  Len(s) >= Len(x) /\ SubSeq(s, Len(s) - Len(x) + 1, Len(s)) = x

ModuleSuffix(m) == IF m = "" THEN "" ELSE "-" \o m

\* the running numbers of the tags of this year/month and this module
ModuleNumbers(names, m) ==
  {ParseNat(SubSeq(t, Len(Today) + 1, Len(t) - Len(ModuleSuffix(m)))) :
     t \in {u \in names :
              /\ HasPrefix(u, Today)
              /\ HasSuffix(DropPrefix(u, Today), ModuleSuffix(m))
              /\ AllDigits(SubSeq(u, Len(Today) + 1,
                                  Len(u) - Len(ModuleSuffix(m))))}}

\* the identifier a per-module sequence would give module m
PerModuleRelease(names, m) ==
  LET nums == ModuleNumbers(names, m)
      n == IF nums = {} THEN 1 ELSE SetMax(nums) + 1
  IN Today \o IncrementFormat(n) \o ModuleSuffix(m)

\* C8: in the date scheme the number proposed for a module is one more than
\* the largest number among the existing tags of the same year/month and
\* the same module suffix, 1 when there is none: with {2024.01.001-api},
\* api gets 2024.01.002-api and web gets 2024.01.001-web.
C8_PerModuleCounter ==
  (pc = "report" /\ ~semVer) =>
    \A i \in 1..Len(newReleases) :
      newReleases[i] = PerModuleRelease(DOMAIN tags, modules[i])

\* C9: the identifiers one date-scheme run produces never collide with each
\* other, also when the same module name is given twice.
C9_NoCollisionWithinRun ==
  ~semVer =>
    \A i, j \in 1..Len(newReleases) :
      i # j => newReleases[i] # newReleases[j]

\* where the release at position i of the list is in its lifecycle
Lifecycle(i) ==
  LET at == SelectSeq(calls, LAMBDA c : c.at = i)
      has(op, ok) == \E k \in 1..Len(at) : at[k].op = op /\ at[k].ok = ok
  IN IF has("PushTagToRemote", TRUE) THEN "Pushed"
     ELSE IF has("PushTagToRemote", FALSE) THEN "PushFailed"
     ELSE IF has("CreateTag", TRUE) THEN "Created"
     ELSE "Proposed"

LifecycleSteps ==
  {<<"Proposed", "Created">>, <<"Created", "Pushed">>,
   <<"Created", "PushFailed">>}

CallsAt(op, i) == SelectSeq(calls, LAMBDA c : c.op = op /\ c.at = i)

\* C10: every release of a run moves only Proposed -> Created ->
\* {Pushed | PushFailed}; CreateTag and PushTagToRemote are each called at
\* most once per list entry, the push only for an entry that was created.
C10_Lifecycle ==
  /\ [](\A i \in 1..Len(newReleases) :
          /\ Len(CallsAt("CreateTag", i)) <= 1
          /\ Len(CallsAt("PushTagToRemote", i)) <= 1
          /\ Len(CallsAt("PushTagToRemote", i)) = 1 =>
               (Len(CallsAt("CreateTag", i)) = 1 /\ CallsAt("CreateTag", i)[1].ok))
  /\ [][\A i \in 1..Len(newReleases) :
          \/ Lifecycle(i)' = Lifecycle(i)
          \/ <<Lifecycle(i), Lifecycle(i)'>> \in LifecycleSteps]_vars

C10_Witness ==
  /\ pc = "exit"
  /\ Len(newReleases) = 2
  /\ Lifecycle(1) = "PushFailed"
  /\ Lifecycle(2) = "Pushed"

\* C11: in the date scheme the identifier proposed for a module (date
\* prefix, zero-padded number, "-<module>" when a module is given) is not
\* the name of a tag that exists when it is proposed.
C11_UniqueAtProposal ==
  (pc = "report" /\ ~semVer) =>
    \A i \in 1..Len(newReleases) : newReleases[i] \notin DOMAIN tags

\* C14: stdout carries one "created release" line per tag the run added,
\* printed exactly for the CreateTag calls that returned no error and
\* before the push of that tag is attempted; a dry run prints the one
\* summary of all computed identifiers and no "created release" line.
C14_OneLinePerCreatedTag ==
  /\ Len(CreatedLines) = Cardinality(DOMAIN tags \ DOMAIN tags0)
  /\ Len(CreatedLines) = Len(SelectSeq(calls,
                               LAMBDA c : c.op = "CreateTag" /\ c.ok))
  /\ pc = "push" =>
       stdout[Len(stdout)] = "created release: " \o newReleases[idx]
  /\ (dryRun /\ pc = "exit" /\ newReleases # <<>>) =>
       /\ CreatedLines = <<>>
       /\ stdout = <<"would create release" \o Plural \o ":\n"
                       \o Join(newReleases, ", ")>>

C14_Witness ==
  /\ pc = "exit" /\ doPush /\ ~dryRun
  /\ Len(newReleases) = 2
  /\ Len(CreatedLines) = 1
  /\ Failed("CreateTag")
  /\ Cardinality(DOMAIN tags \ DOMAIN tags0) = 1

\* C15: a date-scheme run never asks for the current branch; in a semver
\* run a GetBranch failure ends the run at once with a non-zero exit code,
\* before any CreateTag call, so the tags stay those the run started with.
C15_BranchOnlyForSemVer ==
  /\ ~semVer => ~Called("GetBranch")
  /\ Failed("GetBranch") =>
       /\ semVer
       /\ pc = "exit" /\ exitCode # 0
       /\ fatal = "Unable to get current branch"
       /\ NoTagWork
       /\ tags = tags0

C15_Witness ==
  /\ semVer /\ ~dryRun /\ Failed("GetBranch")
  /\ pc = "exit"
  /\ Len(modules) = 2

\* C18: after NewManager failed no operation is invoked on the manager
\* (CheckRemote, the proposal, CreateTag, PushTagToRemote), with or without
\* --push, and the run ends with "failed to load release manager".
C18_FailedOpenCallsNothing ==
  (Called("NewManager") /\ ~mgrOk) =>
    /\ \A i \in 1..Len(calls) : calls[i].op = "NewManager"
    /\ pc = "exit" => fatal = "failed to load release manager"

\* the version the run started from: the largest version among the tags
BaseVersion == GetProposedSemName(DOMAIN tags0)

\* C12: IncrementVersion applies at most one of the three increments, for
\* every combination of the flags, the highest one set, and resets the
\* lower components: from 1.4.7, major gives 2.0.0, minor alone 1.5.0,
\* patch alone 1.4.8, no flag 1.4.7.
C12_IncrementVersion ==
  (semVer /\ Called("IncrementVersion")) =>
    LET b == BaseVersion
        v == proposedSemVer
    IN /\ incMajor => v = <<b[1] + 1, 0, 0>>
       /\ (~incMajor /\ incMinor) => v = <<b[1], b[2] + 1, 0>>
       /\ (~incMajor /\ ~incMinor /\ incPatch) => v = <<b[1], b[2], b[3] + 1>>
       /\ (~incMajor /\ ~incMinor /\ ~incPatch) => v = b
       /\ Cardinality({k \in 1..3 : v[k] > b[k]}) <= 1
       /\ b = <<1, 4, 7>> =>
            v = IF incMajor THEN <<2, 0, 0>>
                ELSE IF incMinor THEN <<1, 5, 0>>
                ELSE IF incPatch THEN <<1, 4, 8>>
                ELSE <<1, 4, 7>>

C12_Witness ==
  /\ semVer /\ pc = "exit"
  /\ BaseVersion = <<1, 4, 7>>
  /\ ~incMajor /\ incMinor /\ incPatch
  /\ proposedSemVer = <<1, 5, 0>>
  /\ newReleases = <<"1.5.0-api">>

\* C19: in a semver run the base version is selected and incremented once,
\* from the tags the run started with; every identifier of the run carries
\* that one major.minor.patch and differs from the others only in its
\* module and branch suffix, also after tags were created in the run.
C19_OneProposalPerRun ==
  (semVer /\ newReleases # <<>>) =>
    /\ Len(CallsOf("GetProposedSemName")) = 1
    /\ Len(CallsOf("IncrementVersion")) = 1
    /\ proposedSemVer =
         IncrementVersion(BaseVersion, incMajor, incMinor, incPatch)
    /\ \A i \in 1..Len(newReleases) :
         ParseSemVer(newReleases[i]) = {proposedSemVer}
    /\ \E branch \in Branches :
         \A i \in 1..Len(newReleases) :
           newReleases[i] = FormatRelease(proposedSemVer, modules[i], branch)

C19_Witness ==
  /\ semVer /\ incPatch /\ pc = "exit"
  /\ modules = <<"api", "web">>
  /\ Cardinality(DOMAIN tags \ DOMAIN tags0) = 2
  /\ GetProposedSemName(DOMAIN tags) = proposedSemVer
  /\ proposedSemVer # BaseVersion

\* C17: loadKeys is called only with --push, never in a dry run, and only
\* right after the CreateTag of the same list entry returned no error; it
\* is always followed by the PushTagToRemote call of that entry, and a key
\* that could not be read or parsed shows only as the failure of that call.
C17_KeyLoadedOnlyForPush ==
  \A k \in 1..Len(calls) :
    calls[k].op = "loadKeys" =>
      /\ doPush /\ ~dryRun
      /\ k > 1
      /\ calls[k - 1].op = "CreateTag"
      /\ calls[k - 1].ok
      /\ calls[k - 1].at = calls[k].at
      /\ k < Len(calls)
      /\ calls[k + 1].op = "PushTagToRemote"
      /\ calls[k + 1].at = calls[k].at
      /\ ~calls[k].ok => ~calls[k + 1].ok

C17_Witness ==
  /\ pc = "exit" /\ exitCode = 1
  /\ Len(newReleases) = 2
  /\ \E k \in 1..Len(calls) :
       /\ calls[k].op = "loadKeys" /\ ~calls[k].ok /\ calls[k].at = 1
       /\ \E j \in (k + 1)..Len(calls) :
            calls[j].op = "PushTagToRemote" /\ calls[j].ok /\ calls[j].at = 2

\* C13: the module list is the --component values followed by the
\* positional arguments, one unnamed module when both are empty; the run
\* computes one identifier per module, in module order, and a run that is
\* not a dry run makes exactly that many CreateTag attempts, in that order.
C13_ModuleList ==
  (pc \notin {"parse"} /\ ~showVersion) =>
    /\ modules = IF cFlags \o posArgs = <<>> THEN <<"">>
                 ELSE cFlags \o posArgs
    /\ newReleases # <<>> =>
         /\ Len(newReleases) = Len(modules)
         /\ \E tail \in {""} \cup {"-" \o b : b \in Branches} :
              \A i \in 1..Len(modules) :
                HasSuffix(newReleases[i], ModuleSuffix(modules[i]) \o tail)
    /\ FinishedTagWork =>
         [i \in 1..Len(CallsOf("CreateTag")) |-> CallsOf("CreateTag")[i].arg]
           = [i \in 1..Len(modules) |-> newReleases[i]]

C13_Witness ==
  /\ pc = "exit" /\ ~dryRun /\ ~semVer
  /\ cFlags = <<"web">> /\ posArgs = <<"api">>
  /\ Len(CallsOf("CreateTag")) = 2
  /\ HasSuffix(CallsOf("CreateTag")[1].arg, "-web")
  /\ HasSuffix(CallsOf("CreateTag")[2].arg, "-api")

\* an empty command line gives exactly one unnamed release
C13_WitnessUnnamed ==
  /\ pc = "exit" /\ cFlags = <<>> /\ posArgs = <<>>
  /\ Len(CallsOf("CreateTag")) = 1

\* C16: an explicit --user / --email is kept; the configuration value is
\* used only for a field whose flag is empty; a configuration that fails to
\* load leaves the flag values (possibly empty), never ends the run, and a
\* message without a user or an email fails only the CreateTag calls.
C16_IdentityFlagFirst ==
  /\ (pc \notin {"parse", "config"} /\ ~showVersion) =>
       /\ user = IF userFlag # "" THEN userFlag
                 ELSE IF gitconfig.loaded THEN gitconfig.name ELSE ""
       /\ email = IF emailFlag # "" THEN emailFlag
                  ELSE IF gitconfig.loaded THEN gitconfig.email ELSE ""
  /\ pc = "exit" /\ exitCode # 0 =>
       fatal \in {"problem with remote, cannot push", "panic",
                  "failed to load release manager",
                  "Unable to get current branch",
                  "at least one tag failed to create",
                  "at least one tag failed to create/push"}
  /\ (message # "" /\ (user = "" \/ email = "")) =>
       /\ \A i \in 1..Len(calls) : calls[i].op = "CreateTag" => ~calls[i].ok
       /\ FinishedTagWork =>
            /\ Len(CallsOf("CreateTag")) = Len(newReleases)
            /\ fatal = "at least one tag failed to create"
                         \o (IF doPush THEN "/push" ELSE "")

C16_Witness ==
  /\ pc = "exit"
  /\ ~gitconfig.loaded
  /\ userFlag = "flag-user" /\ emailFlag = "" /\ message # ""
  /\ user = "flag-user" /\ email = ""
  /\ Failed("CreateTag")

\* a loaded configuration fills only the field no flag gave
C16_WitnessMixed ==
  /\ pc = "exit" /\ exitCode = 0 /\ ~dryRun /\ Called("CreateTag")
  /\ gitconfig = FullConfig
  /\ userFlag = "flag-user" /\ emailFlag = "" /\ message # ""
  /\ user = "flag-user" /\ email = "cfg@mail"

=============================================================================
